---- MODULE Spec2Model ----
(***************************************************************************)
(* StockMaster: the stock-mutation and ledger logic.  The Express/Mongo    *)
(* API (server/index.js) and the Supabase screens that write the tables    *)
(* themselves keep separate stores; each request handler is one atomic     *)
(* action and the collections and tables are the variables.                *)
(***************************************************************************)
EXTENDS Integers, Sequences, FiniteSets, TLC

\* ---------------------------------------------------------------- bounds
MaxLedger == 3        \* ledger rows kept before the appending handlers stop

\* ---------------------------------------------------------------- inputs
Products == {"p1"}
Warehouses == {"w1", "w2"}
Pairs == Products \X Warehouses
ReceiptQtys == {1, 2}                 \* quantity of a receipt request
DeliveryQtys == {0, 1, 2}             \* quantity of a delivery request
QtyInputs == {-1, 0, 1}               \* quantity of a transfer or an adjustment request
ReorderLevels == {0, 1}               \* products.reorder_level
ReceiptIds == {1}
DeliveryIds == {1}
NoDate == 0                           \* a Date field that was never set
MalformedId == "bad"                  \* a string that is no ObjectId
UnknownProduct == "p9"                \* a well-formed ObjectId of no Product document
ProductIds == Products \cup {UnknownProduct, MalformedId}   \* product_id of a request body
AlertIds == {1, 2}
NoUser == "none"                      \* a request body without user_id
UserIds == {"u1", NoUser}             \* user_id of an acknowledge request
Requests == {1, 2}                    \* deliver requests that can be in progress together
OrderIds == {1, 2}                    \* the orders those requests name
StartBalances == {2, 3}               \* seeded Stock quantity
MaxOtps == 2                          \* OTP documents created in a run
MaxNow == 4                           \* clock ticks of a run
NoEmail == ""                         \* a request body without email
EmailInputs == {"ann@x", "ANN@X", "bob@x", NoEmail}   \* email of an auth request
Users == {"ann@x"}                    \* email of the User documents
Codes == {"111111", "222222"}         \* codes Math.random() can produce
CodeInputs == Codes \cup {"333333"}   \* otp of a verify request

VARIABLES
  stock,          \* Stock collection: (product, warehouse) -> quantity, for the documents that exist
  ledger,         \* StockLedger collection in insertion order
  receipts,       \* StockReceipt collection: id -> document
  deliveries,     \* Delivery collection: id -> document
  nextReceipt,    \* number of receipt ids handed out
  nextDelivery,   \* number of delivery ids handed out
  sbStock,        \* Supabase table stock: (product, warehouse) -> quantity, for the rows that exist
  sbLedger,       \* Supabase table stock_ledger in insertion order
  sbReceipts,     \* Supabase table stock_receipts: id -> row
  sbAlerts,       \* Supabase table low_stock_alerts in insertion order
  sbReorder,      \* Supabase table products: product -> reorder_level
  sbNextReceipt,  \* number of stock_receipts ids handed out
  alerts,         \* LowStockAlert collection: id -> document
  reorder,        \* Product collection: product -> reorder_level
  inflight,       \* requests between two awaits: request -> what the handler holds
  otps,           \* OTP collection in insertion order
  now,            \* clock read by new Date()
  last            \* the request handled last and the status it ended with

serverVars == <<stock, ledger, receipts, deliveries, nextReceipt, nextDelivery, alerts, reorder,
                inflight, otps>>
clientVars == <<sbStock, sbLedger, sbReceipts, sbAlerts, sbReorder, sbNextReceipt>>
alertVars == <<alerts, reorder>>
vars == <<stock, ledger, receipts, deliveries, nextReceipt, nextDelivery, alerts, reorder, inflight, otps,
          sbStock, sbLedger, sbReceipts, sbAlerts, sbReorder, sbNextReceipt, now, last>>

\* ---------------------------------------------------------------- helpers
Max(a, b) == IF a >= b THEN a ELSE b

\* new StockLedger({...}) : the fields of StockLedgerSchema that are stored
LedgerEntry(p, w, change, after, type) ==
  [product_id |-> p, warehouse_id |-> w, quantity_change |-> change,
   quantity_after |-> after, type |-> type]

\* stockDoc ? stockDoc.quantity : 0
Bal(s, pw) == IF pw \in DOMAIN s THEN s[pw] ELSE 0

Available(p, w) == Bal(stock, <<p, w>>)

\* doc.save(): insert the document under its key, or replace the stored one
Save(coll, key, doc) == [k \in DOMAIN coll \cup {key} |-> IF k = key THEN doc ELSE coll[k]]

Response(op, status) == [op |-> op, status |-> status]

\* mongoose.Types.ObjectId.isValid(id); a query or a document with an id that is
\* not valid throws and the handler's catch block answers
IsValid(id) == id # MalformedId

\* res.status(400).json({ error: `Insufficient stock. Available: ${availableStock}` })
InsufficientStock(op, available) ==
  [op |-> op, status |-> 400, error |-> "Insufficient stock", available |-> available]

Init ==
  /\ stock = <<>>
  /\ ledger = <<>>
  /\ receipts = <<>>
  /\ deliveries = <<>>
  /\ nextReceipt = 0
  /\ nextDelivery = 0
  /\ alerts = <<>>
  /\ reorder = [p \in Products |-> 0]
  /\ inflight = <<>>
  /\ otps = <<>>
  /\ sbStock = <<>>
  /\ sbLedger = <<>>
  /\ sbReceipts = <<>>
  /\ sbAlerts = <<>>
  /\ sbReorder = [p \in Products |-> 0]
  /\ sbNextReceipt = 0
  /\ now = 1
  /\ last = Response("none", 0)

\* ---------------------------------------------------------------- receipts
\* POST /api/stock_receipts
CreateReceipt(p, w, q) ==
  IF ~IsValid(p) \/ ~IsValid(w)
  THEN /\ last' = Response("create_receipt", 400)
       /\ UNCHANGED <<clientVars, otps, alertVars, inflight, stock, ledger, receipts, deliveries,
                      nextReceipt, nextDelivery, now>>
  ELSE /\ nextReceipt + 1 \in ReceiptIds
       /\ Len(ledger) < MaxLedger
       /\ receipts' = Save(receipts, nextReceipt + 1,
                            [product_id |-> p, warehouse_id |-> w, quantity |-> q,
                             status |-> "pending", completed_at |-> NoDate])
       /\ nextReceipt' = nextReceipt + 1
       /\ ledger' = Append(ledger, LedgerEntry(p, w, q, q, "receipt"))
       /\ last' = Response("create_receipt", 201)
       /\ UNCHANGED <<clientVars, otps, alertVars, inflight, stock, deliveries, nextDelivery, now>>

\* stockDoc.quantity after the credit of a completion
CompletedQuantity(s, pw, q) == IF pw \in DOMAIN s THEN s[pw] + q ELSE q

\* A completion that rewrites the receipt entries of the pair instead of
\* appending one
CompleteReceiptUpdatingEntry(r) ==
  IF r \notin DOMAIN receipts
  THEN /\ last' = Response("complete_receipt", 404)
       /\ UNCHANGED <<clientVars, otps, alertVars, inflight, stock, ledger, receipts, deliveries, nextReceipt, nextDelivery, now>>
  ELSE LET sr == receipts[r]
           pw == <<sr.product_id, sr.warehouse_id>>
           newQty == CompletedQuantity(stock, pw, sr.quantity)
       IN /\ Len(ledger) < MaxLedger
          /\ receipts' = [receipts EXCEPT ![r].status = "completed",
                                          ![r].completed_at = now]
          /\ stock' = Save(stock, pw, newQty)
          /\ ledger' = [i \in 1..Len(ledger) |->
                          IF ledger[i].type = "receipt"
                          THEN [ledger[i] EXCEPT !.quantity_after = newQty]
                          ELSE ledger[i]]
          /\ now' = now + 1
          /\ last' = Response("complete_receipt", 200)
          /\ UNCHANGED <<clientVars, otps, alertVars, inflight, deliveries, nextReceipt, nextDelivery>>

\* POST /api/stock_receipts/:id/complete
CompleteReceipt(r) ==
  IF r \notin DOMAIN receipts
  THEN /\ last' = Response("complete_receipt", 404)
       /\ UNCHANGED <<clientVars, otps, alertVars, inflight, stock, ledger, receipts, deliveries, nextReceipt, nextDelivery, now>>
  ELSE LET sr == receipts[r]
           pw == <<sr.product_id, sr.warehouse_id>>
           newQty == CompletedQuantity(stock, pw, sr.quantity)
       IN /\ Len(ledger) < MaxLedger
          /\ receipts' = [receipts EXCEPT ![r].status = "completed",
                                          ![r].completed_at = now]
          /\ stock' = Save(stock, pw, newQty)
          /\ ledger' = Append(ledger, LedgerEntry(sr.product_id, sr.warehouse_id,
                                                  sr.quantity, newQty, "receipt"))
          /\ now' = now + 1
          /\ last' = Response("complete_receipt", 200)
          /\ UNCHANGED <<clientVars, otps, alertVars, inflight, deliveries, nextReceipt, nextDelivery>>

\* ---------------------------------------------------------------- deliveries
\* A pick handler that takes the quantity out of stock when the order is created
CreateDeliveryReserving(p, w, q) ==
  IF ~IsValid(p) \/ ~IsValid(w) \/ q <= 0
  THEN /\ last' = Response("create_delivery", 400)
       /\ UNCHANGED <<clientVars, otps, alertVars, inflight, stock, ledger, receipts, deliveries, nextReceipt, nextDelivery, now>>
  ELSE IF Available(p, w) < q
  THEN /\ last' = InsufficientStock("create_delivery", Available(p, w))
       /\ UNCHANGED <<clientVars, otps, alertVars, inflight, stock, ledger, receipts, deliveries, nextReceipt, nextDelivery, now>>
  ELSE /\ nextDelivery + 1 \in DeliveryIds
       /\ deliveries' = Save(deliveries, nextDelivery + 1,
                              [product_id |-> p, warehouse_id |-> w, quantity |-> q,
                               status |-> "Picked", picked_at |-> now,
                               packed_at |-> NoDate, delivered_at |-> NoDate])
       /\ stock' = Save(stock, <<p, w>>, stock[<<p, w>>] - q)
       /\ nextDelivery' = nextDelivery + 1
       /\ now' = now + 1
       /\ last' = Response("create_delivery", 201)
       /\ UNCHANGED <<clientVars, otps, alertVars, inflight, ledger, receipts, nextReceipt>>

\* A pick handler without the stock check
CreateDeliveryUnchecked(p, w, q) ==
  IF ~IsValid(p) \/ ~IsValid(w) \/ q <= 0
  THEN /\ last' = Response("create_delivery", 400)
       /\ UNCHANGED <<clientVars, otps, alertVars, inflight, stock, ledger, receipts, deliveries, nextReceipt, nextDelivery, now>>
  ELSE /\ nextDelivery + 1 \in DeliveryIds
       /\ deliveries' = Save(deliveries, nextDelivery + 1,
                              [product_id |-> p, warehouse_id |-> w, quantity |-> q,
                               status |-> "Picked", picked_at |-> now,
                               packed_at |-> NoDate, delivered_at |-> NoDate])
       /\ nextDelivery' = nextDelivery + 1
       /\ now' = now + 1
       /\ last' = Response("create_delivery", 201)
       /\ UNCHANGED <<clientVars, otps, alertVars, inflight, stock, ledger, receipts, nextReceipt>>

\* POST /api/stock_deliveries  (step 1: pick)
CreateDelivery(p, w, q) ==
  IF ~IsValid(p) \/ ~IsValid(w) \/ q <= 0
  THEN /\ last' = Response("create_delivery", 400)
       /\ UNCHANGED <<clientVars, otps, alertVars, inflight, stock, ledger, receipts, deliveries, nextReceipt, nextDelivery, now>>
  ELSE IF Available(p, w) < q
  THEN /\ last' = InsufficientStock("create_delivery", Available(p, w))
       /\ UNCHANGED <<clientVars, otps, alertVars, inflight, stock, ledger, receipts, deliveries, nextReceipt, nextDelivery, now>>
  ELSE /\ nextDelivery + 1 \in DeliveryIds
       /\ deliveries' = Save(deliveries, nextDelivery + 1,
                              [product_id |-> p, warehouse_id |-> w, quantity |-> q,
                               status |-> "Picked", picked_at |-> now,
                               packed_at |-> NoDate, delivered_at |-> NoDate])
       /\ nextDelivery' = nextDelivery + 1
       /\ now' = now + 1
       /\ last' = Response("create_delivery", 201)
       /\ UNCHANGED <<clientVars, otps, alertVars, inflight, stock, ledger, receipts, nextReceipt>>

\* A pack handler that only refuses delivered orders
CanPackAgain(status) == status # "Delivered"

\* delivery.status !== 'Picked' is what the pack handler refuses
CanPack(status) == status = "Picked"

\* POST /api/deliveries/:id/pack  (step 2)
Pack(d) ==
  IF d \notin DOMAIN deliveries
  THEN /\ last' = Response("pack", 404)
       /\ UNCHANGED <<clientVars, otps, alertVars, inflight, stock, ledger, receipts, deliveries, nextReceipt, nextDelivery, now>>
  ELSE IF ~CanPack(deliveries[d].status)
  THEN /\ last' = Response("pack", 400)
       /\ UNCHANGED <<clientVars, otps, alertVars, inflight, stock, ledger, receipts, deliveries, nextReceipt, nextDelivery, now>>
  ELSE /\ deliveries' = [deliveries EXCEPT ![d].status = "Packed", ![d].packed_at = now]
       /\ now' = now + 1
       /\ last' = Response("pack", 200)
       /\ UNCHANGED <<clientVars, otps, alertVars, inflight, stock, ledger, receipts, nextReceipt, nextDelivery>>

\* A deliver handler that only refuses delivered orders
CanDeliverUnpacked(status) == status # "Delivered"

\* delivery.status !== 'Packed' is what the deliver handler refuses
CanDeliver(status) == status = "Packed"

\* Math.min written for Math.max
ReducedQuantityMin(s, pw, q) == IF 0 <= s[pw] - q THEN 0 ELSE s[pw] - q

\* Math.max(0, stockDoc.quantity - delivery.quantity)
ReducedQuantity(s, pw, q) == Max(0, s[pw] - q)

\* A deliver handler that subtracts without the second stock check and without the clamp
DeliverUnchecked(d) ==
  IF d \notin DOMAIN deliveries
  THEN /\ last' = Response("deliver", 404)
       /\ UNCHANGED <<clientVars, otps, alertVars, inflight, stock, ledger, receipts, deliveries, nextReceipt, nextDelivery, now>>
  ELSE IF ~CanDeliver(deliveries[d].status) \/ <<deliveries[d].product_id, deliveries[d].warehouse_id>> \notin DOMAIN stock
  THEN /\ last' = Response("deliver", 400)
       /\ UNCHANGED <<clientVars, otps, alertVars, inflight, stock, ledger, receipts, deliveries, nextReceipt, nextDelivery, now>>
  ELSE LET dl == deliveries[d]
           pw == <<dl.product_id, dl.warehouse_id>>
           newQty == stock[pw] - dl.quantity
       IN /\ Len(ledger) < MaxLedger
          /\ stock' = Save(stock, pw, newQty)
          /\ ledger' = Append(ledger, LedgerEntry(dl.product_id, dl.warehouse_id,
                                                  0 - dl.quantity, newQty, "delivery"))
          /\ deliveries' = [deliveries EXCEPT ![d].status = "Delivered",
                                              ![d].delivered_at = now]
          /\ now' = now + 1
          /\ last' = Response("deliver", 200)
          /\ UNCHANGED <<clientVars, otps, alertVars, inflight, receipts, nextReceipt, nextDelivery>>

\* A deliver handler that trusts the check made when the order was created:
\* no second stock check, the clamp alone
DeliverClamping(d) ==
  IF d \notin DOMAIN deliveries
  THEN /\ last' = Response("deliver", 404)
       /\ UNCHANGED <<clientVars, otps, alertVars, inflight, stock, ledger, receipts, deliveries, nextReceipt, nextDelivery, now>>
  ELSE IF ~CanDeliver(deliveries[d].status)
  THEN /\ last' = Response("deliver", 400)
       /\ UNCHANGED <<clientVars, otps, alertVars, inflight, stock, ledger, receipts, deliveries, nextReceipt, nextDelivery, now>>
  ELSE LET dl == deliveries[d]
           pw == <<dl.product_id, dl.warehouse_id>>
           newQty == Max(0, Bal(stock, pw) - dl.quantity)
       IN /\ Len(ledger) < MaxLedger
          /\ stock' = Save(stock, pw, newQty)
          /\ ledger' = Append(ledger, LedgerEntry(dl.product_id, dl.warehouse_id,
                                                  0 - dl.quantity, newQty, "delivery"))
          /\ deliveries' = [deliveries EXCEPT ![d].status = "Delivered",
                                              ![d].delivered_at = now]
          /\ now' = now + 1
          /\ last' = Response("deliver", 200)
          /\ UNCHANGED <<clientVars, otps, alertVars, inflight, receipts, nextReceipt, nextDelivery>>

\* POST /api/deliveries/:id/deliver  (step 3)
Deliver(d) ==
  IF d \notin DOMAIN deliveries
  THEN /\ last' = Response("deliver", 404)
       /\ UNCHANGED <<clientVars, otps, alertVars, inflight, stock, ledger, receipts, deliveries, nextReceipt, nextDelivery, now>>
  ELSE IF ~CanDeliver(deliveries[d].status)
  THEN /\ last' = Response("deliver", 400)
       /\ UNCHANGED <<clientVars, otps, alertVars, inflight, stock, ledger, receipts, deliveries, nextReceipt, nextDelivery, now>>
  ELSE LET dl == deliveries[d]
           pw == <<dl.product_id, dl.warehouse_id>>
       IN IF Available(dl.product_id, dl.warehouse_id) < dl.quantity
          THEN /\ last' = Response("deliver", 400)
               /\ UNCHANGED <<clientVars, otps, alertVars, inflight, stock, ledger, receipts, deliveries, nextReceipt,
                              nextDelivery, now>>
          ELSE LET newQty == ReducedQuantity(stock, pw, dl.quantity)
               IN /\ Len(ledger) < MaxLedger
                  /\ stock' = Save(stock, pw, newQty)
                  /\ ledger' = Append(ledger, LedgerEntry(dl.product_id, dl.warehouse_id,
                                                          0 - dl.quantity, newQty, "delivery"))
                  /\ deliveries' = [deliveries EXCEPT ![d].status = "Delivered",
                                                      ![d].delivered_at = now]
                  /\ now' = now + 1
                  /\ last' = Response("deliver", 200)
                  /\ UNCHANGED <<clientVars, otps, alertVars, inflight, receipts, nextReceipt, nextDelivery>>

\* A delete handler that removes whatever order it finds
CanDeleteAny(status) == TRUE

\* delivery.status === 'Delivered' is what the delete handler refuses
CanDelete(status) == status # "Delivered"

\* The deliver handler as the event loop runs it: the handler gives way at each
\* await, so a request advances one database call at a time and other requests
\* run in between.  inflight[r] is what request r holds in memory: the order it
\* found, the availableStock it read, the quantity of its stockDoc, and the await
\* it stopped at.

\* the document of the order a request found
Order(r) == deliveries[inflight[r].delivery]

\* the request stopped at no await any more
Done(r) == [x \in DOMAIN inflight \ {r} |-> inflight[x]]

\* await Delivery.findById(req.params.id) and the status checks
DeliverFind(r, d) ==
  /\ r \notin DOMAIN inflight
  /\ IF d \notin DOMAIN deliveries
     THEN last' = Response("deliver", 404) /\ UNCHANGED inflight
     ELSE IF ~CanDeliver(deliveries[d].status)
     THEN last' = Response("deliver", 400) /\ UNCHANGED inflight
     ELSE /\ inflight' = Save(inflight, r, [delivery |-> d, pc |-> "found", available |-> 0,
                                             quantity |-> 0])
          /\ UNCHANGED last
  /\ UNCHANGED <<clientVars, otps, alertVars, stock, ledger, receipts, deliveries, nextReceipt,
                 nextDelivery, now>>

\* await Stock.findOne({...}) and the second stock check
DeliverCheckStock(r) ==
  /\ r \in DOMAIN inflight /\ inflight[r].pc = "found"
  /\ LET available == Available(Order(r).product_id, Order(r).warehouse_id)
     IN IF available < Order(r).quantity
        THEN inflight' = Done(r) /\ last' = Response("deliver", 400)
        ELSE /\ inflight' = [inflight EXCEPT ![r].pc = "checked", ![r].available = available,
                                                 ![r].quantity = available]
             /\ UNCHANGED last
  /\ UNCHANGED <<clientVars, otps, alertVars, stock, ledger, receipts, deliveries, nextReceipt,
                 nextDelivery, now>>

\* A stock write that decrements the stored quantity in the database
DeliverSaveStockAtomic(r) ==
  /\ r \in DOMAIN inflight /\ inflight[r].pc = "checked"
  /\ LET pw == <<Order(r).product_id, Order(r).warehouse_id>>
         newQty == Max(0, stock[pw] - Order(r).quantity)
     IN /\ stock' = Save(stock, pw, newQty)
        /\ inflight' = [inflight EXCEPT ![r].pc = "saved", ![r].quantity = newQty]
  /\ UNCHANGED <<clientVars, otps, alertVars, ledger, receipts, deliveries, nextReceipt,
                 nextDelivery, now, last>>

\* stockDoc.quantity = Math.max(0, stockDoc.quantity - delivery.quantity);
\* await stockDoc.save()
DeliverSaveStock(r) ==
  /\ r \in DOMAIN inflight /\ inflight[r].pc = "checked"
  /\ LET pw == <<Order(r).product_id, Order(r).warehouse_id>>
         newQty == Max(0, inflight[r].quantity - Order(r).quantity)
     IN /\ stock' = Save(stock, pw, newQty)
        /\ inflight' = [inflight EXCEPT ![r].pc = "saved", ![r].quantity = newQty]
  /\ UNCHANGED <<clientVars, otps, alertVars, ledger, receipts, deliveries, nextReceipt,
                 nextDelivery, now, last>>

\* await new StockLedger({...}).save()
DeliverSaveLedger(r) ==
  /\ r \in DOMAIN inflight /\ inflight[r].pc = "saved"
  /\ Len(ledger) < MaxLedger
  /\ ledger' = Append(ledger, LedgerEntry(Order(r).product_id, Order(r).warehouse_id,
                                          0 - Order(r).quantity, inflight[r].quantity,
                                          "delivery"))
  /\ inflight' = [inflight EXCEPT ![r].pc = "logged"]
  /\ UNCHANGED <<clientVars, otps, alertVars, stock, receipts, deliveries, nextReceipt,
                 nextDelivery, now, last>>

\* delivery.status = 'Delivered'; await delivery.save(); res.json(...)
DeliverSaveStatus(r) ==
  /\ r \in DOMAIN inflight /\ inflight[r].pc = "logged"
  /\ deliveries' = [deliveries EXCEPT ![inflight[r].delivery].status = "Delivered",
                                      ![inflight[r].delivery].delivered_at = now]
  /\ now' = now + 1
  /\ inflight' = Done(r)
  /\ last' = Response("deliver", 200)
  /\ UNCHANGED <<clientVars, otps, alertVars, stock, ledger, receipts, nextReceipt, nextDelivery>>

\* the awaits of the deliver handler a request can be stopped at
DeliverAwaits == {"found", "checked", "saved", "logged"}

\* the database call a deliver request waits for rejects: catch (err) answers
\* 400 'Failed to deliver'; what the earlier calls stored stays stored
DeliverFail(r) ==
  /\ r \in DOMAIN inflight /\ inflight[r].pc \in DeliverAwaits
  /\ inflight' = Done(r)
  /\ last' = Response("deliver", 400)
  /\ UNCHANGED <<clientVars, otps, alertVars, stock, ledger, receipts, deliveries, nextReceipt,
                 nextDelivery, now>>

\* DELETE /api/deliveries/:id
DeleteDelivery(d) ==
  IF d \notin DOMAIN deliveries
  THEN /\ last' = Response("delete_delivery", 404)
       /\ UNCHANGED <<clientVars, otps, alertVars, inflight, stock, ledger, receipts, deliveries, nextReceipt, nextDelivery, now>>
  ELSE IF ~CanDelete(deliveries[d].status)
  THEN /\ last' = Response("delete_delivery", 400)
       /\ UNCHANGED <<clientVars, otps, alertVars, inflight, stock, ledger, receipts, deliveries, nextReceipt, nextDelivery, now>>
  ELSE /\ deliveries' = [x \in DOMAIN deliveries \ {d} |-> deliveries[x]]
       /\ last' = Response("delete_delivery", 200)
       /\ UNCHANGED <<clientVars, otps, alertVars, inflight, stock, ledger, receipts, nextReceipt, nextDelivery, now>>

\* ---------------------------------------------------------------- transfers
\* A source leg without Math.max(0, ...)
TransferFromQuantityUnclamped(s, pw, q) == IF pw \in DOMAIN s THEN s[pw] - q ELSE 0

\* fromStock.quantity after the source leg
TransferFromQuantity(s, pw, q) == IF pw \in DOMAIN s THEN Max(0, s[pw] - q) ELSE 0

\* toStock.quantity after the destination leg
TransferToQuantity(s, pw, q) == IF pw \in DOMAIN s THEN s[pw] + q ELSE q

\* POST /api/stock_transfers
Transfer(p, from, to, q) ==
  LET fromQty == TransferFromQuantity(stock, <<p, from>>, q)
      afterFrom == Save(stock, <<p, from>>, fromQty)
      toQty == TransferToQuantity(afterFrom, <<p, to>>, q)
  IN IF ~IsValid(p) \/ ~IsValid(from)
     THEN /\ last' = Response("transfer", 400)
          /\ UNCHANGED <<clientVars, otps, alertVars, inflight, stock, ledger, receipts, deliveries,
                         nextReceipt, nextDelivery, now>>
     ELSE IF ~IsValid(to)
     THEN /\ stock' = afterFrom
          /\ last' = Response("transfer", 400)
          /\ UNCHANGED <<clientVars, otps, alertVars, inflight, ledger, receipts, deliveries,
                         nextReceipt, nextDelivery, now>>
     ELSE /\ Len(ledger) + 2 <= MaxLedger
          /\ stock' = Save(afterFrom, <<p, to>>, toQty)
          /\ ledger' = ledger \o <<LedgerEntry(p, from, 0 - q, fromQty, "transfer_out"),
                                   LedgerEntry(p, to, q, toQty, "transfer_in")>>
          /\ last' = Response("transfer", 201)
          /\ UNCHANGED <<clientVars, otps, alertVars, inflight, receipts, deliveries, nextReceipt,
                         nextDelivery, now>>

\* The transfer handler as the event loop runs it, one database call at a
\* time.  inflight[r] holds the request body and the fromStock and toStock
\* quantities the handler has in memory.

\* the awaits of the transfer handler a request can be stopped at
TransferAwaits == {"source_found", "source_saved", "dest_found", "dest_saved", "out_logged"}

\* await Stock.findOne({ product_id, warehouse_id: from_warehouse_id })
TransferFindSource(r, p, from, to, q) ==
  /\ r \notin DOMAIN inflight
  /\ inflight' = Save(inflight, r,
                      [pc |-> "source_found", product_id |-> p, from |-> from, to |-> to,
                       qty |-> q, fromQty |-> TransferFromQuantity(stock, <<p, from>>, q),
                       toQty |-> 0])
  /\ UNCHANGED <<clientVars, otps, alertVars, stock, ledger, receipts, deliveries, nextReceipt,
                 nextDelivery, now, last>>

\* await fromStock.save(), or the save of a new row with quantity 0
TransferSaveSource(r) ==
  /\ r \in DOMAIN inflight /\ inflight[r].pc = "source_found"
  /\ stock' = Save(stock, <<inflight[r].product_id, inflight[r].from>>, inflight[r].fromQty)
  /\ inflight' = [inflight EXCEPT ![r].pc = "source_saved"]
  /\ UNCHANGED <<clientVars, otps, alertVars, ledger, receipts, deliveries, nextReceipt,
                 nextDelivery, now, last>>

\* await Stock.findOne({ product_id, warehouse_id: to_warehouse_id })
TransferFindDest(r) ==
  /\ r \in DOMAIN inflight /\ inflight[r].pc = "source_saved"
  /\ inflight' = [inflight EXCEPT
                    ![r].pc = "dest_found",
                    ![r].toQty = TransferToQuantity(stock, <<inflight[r].product_id,
                                                             inflight[r].to>>, inflight[r].qty)]
  /\ UNCHANGED <<clientVars, otps, alertVars, stock, ledger, receipts, deliveries, nextReceipt,
                 nextDelivery, now, last>>

\* await toStock.save(), or the save of a new row with the quantity
TransferSaveDest(r) ==
  /\ r \in DOMAIN inflight /\ inflight[r].pc = "dest_found"
  /\ stock' = Save(stock, <<inflight[r].product_id, inflight[r].to>>, inflight[r].toQty)
  /\ inflight' = [inflight EXCEPT ![r].pc = "dest_saved"]
  /\ UNCHANGED <<clientVars, otps, alertVars, ledger, receipts, deliveries, nextReceipt,
                 nextDelivery, now, last>>

\* await new StockLedger({ ..., type: 'transfer_out' }).save()
TransferLogOut(r) ==
  /\ r \in DOMAIN inflight /\ inflight[r].pc = "dest_saved"
  /\ Len(ledger) < MaxLedger
  /\ ledger' = Append(ledger, LedgerEntry(inflight[r].product_id, inflight[r].from,
                                          0 - inflight[r].qty, inflight[r].fromQty,
                                          "transfer_out"))
  /\ inflight' = [inflight EXCEPT ![r].pc = "out_logged"]
  /\ UNCHANGED <<clientVars, otps, alertVars, stock, receipts, deliveries, nextReceipt,
                 nextDelivery, now, last>>

\* await new StockLedger({ ..., type: 'transfer_in' }).save(); res.status(201)
TransferLogIn(r) ==
  /\ r \in DOMAIN inflight /\ inflight[r].pc = "out_logged"
  /\ Len(ledger) < MaxLedger
  /\ ledger' = Append(ledger, LedgerEntry(inflight[r].product_id, inflight[r].to,
                                          inflight[r].qty, inflight[r].toQty, "transfer_in"))
  /\ inflight' = Done(r)
  /\ last' = Response("transfer", 201)
  /\ UNCHANGED <<clientVars, otps, alertVars, stock, receipts, deliveries, nextReceipt,
                 nextDelivery, now>>

\* A catch block that puts back the quantity the source leg took
TransferFailRollback(r) ==
  /\ r \in DOMAIN inflight /\ inflight[r].pc \in TransferAwaits
  /\ stock' = IF inflight[r].pc = "source_found" THEN stock
              ELSE Save(stock, <<inflight[r].product_id, inflight[r].from>>,
                        inflight[r].fromQty + inflight[r].qty)
  /\ inflight' = Done(r)
  /\ last' = Response("transfer", 400)
  /\ UNCHANGED <<clientVars, otps, alertVars, ledger, receipts, deliveries, nextReceipt,
                 nextDelivery, now>>

\* the database call a transfer request waits for rejects: catch (err) answers
\* 400 'Failed to create transfer'; what the earlier calls stored stays stored
TransferFail(r) ==
  /\ r \in DOMAIN inflight /\ inflight[r].pc \in TransferAwaits
  /\ inflight' = Done(r)
  /\ last' = Response("transfer", 400)
  /\ UNCHANGED <<clientVars, otps, alertVars, stock, ledger, receipts, deliveries, nextReceipt,
                 nextDelivery, now>>

\* ---------------------------------------------------------------- adjustments
\* An adjustment that floors the balance at 0
AdjustedQuantityClamped(s, pw, change) == Max(0, IF pw \in DOMAIN s THEN s[pw] + change ELSE change)

\* stockDoc.quantity after the adjustment
AdjustedQuantity(s, pw, change) == IF pw \in DOMAIN s THEN s[pw] + change ELSE change

\* POST /api/stock_adjustments
Adjust(p, w, change) ==
  LET newQty == AdjustedQuantity(stock, <<p, w>>, change)
  IN IF ~IsValid(p) \/ ~IsValid(w)
     THEN /\ last' = Response("adjust", 400)
          /\ UNCHANGED <<clientVars, otps, alertVars, inflight, stock, ledger, receipts, deliveries,
                         nextReceipt, nextDelivery, now>>
     ELSE /\ Len(ledger) < MaxLedger
          /\ stock' = Save(stock, <<p, w>>, newQty)
          /\ ledger' = Append(ledger, LedgerEntry(p, w, change, newQty, "adjustment"))
          /\ last' = Response("adjust", 201)
          /\ UNCHANGED <<clientVars, otps, alertVars, inflight, receipts, deliveries, nextReceipt,
                         nextDelivery, now>>

\* ---------------------------------------------------------------- alerts
\* alert.acknowledged_by = req.body.user_id || 'system'
AcknowledgedBy(u) == IF u = NoUser THEN "system" ELSE u

\* An acknowledge handler that updates every alert of the collection
AcknowledgeAll(a, u) ==
  IF a \notin DOMAIN alerts
  THEN /\ last' = Response("acknowledge", 404)
       /\ UNCHANGED <<clientVars, otps, alertVars, inflight, stock, ledger, receipts, deliveries,
                      nextReceipt, nextDelivery, now>>
  ELSE /\ alerts' = [x \in DOMAIN alerts |->
                       [alerts[x] EXCEPT !.is_acknowledged = TRUE, !.acknowledged_at = now,
                                         !.acknowledged_by = AcknowledgedBy(u)]]
       /\ now' = now + 1
       /\ last' = Response("acknowledge", 200)
       /\ UNCHANGED <<clientVars, otps, reorder, inflight, stock, ledger, receipts, deliveries,
                      nextReceipt, nextDelivery>>

\* POST /api/low_stock_alerts/:id/acknowledge
Acknowledge(a, u) ==
  IF a \notin DOMAIN alerts
  THEN /\ last' = Response("acknowledge", 404)
       /\ UNCHANGED <<clientVars, otps, alertVars, inflight, stock, ledger, receipts, deliveries,
                      nextReceipt, nextDelivery, now>>
  ELSE /\ alerts' = [alerts EXCEPT ![a].is_acknowledged = TRUE, ![a].acknowledged_at = now,
                                    ![a].acknowledged_by = AcknowledgedBy(u)]
       /\ now' = now + 1
       /\ last' = Response("acknowledge", 200)
       /\ UNCHANGED <<clientVars, otps, reorder, inflight, stock, ledger, receipts, deliveries,
                      nextReceipt, nextDelivery>>

\* ---------------------------------------------------------------- Supabase screens
\* The Supabase screens write the tables from the browser.  A handler's
\* status in `last` is 200 when it ends without an error shown and 500 when
\* its catch block reports one.

\* a low_stock_alerts row as the trigger inserts it: the columns it names and
\* the defaults of the others
AlertRow(p, w, q) ==
  [product_id |-> p, warehouse_id |-> w, current_quantity |-> q,
   reorder_level |-> sbReorder[p], is_acknowledged |-> FALSE,
   acknowledged_by |-> NoUser, acknowledged_at |-> NoDate]

\* A trigger without the NOT EXISTS condition
CheckLowStockNoDedupe(rows, p, w, q) ==
  IF q <= sbReorder[p] /\ sbReorder[p] > 0
  THEN Append(rows, AlertRow(p, w, q))
  ELSE rows

\* check_low_stock(), AFTER INSERT OR UPDATE ON stock: the alerts after a row
\* of (p, w) was written with quantity q
CheckLowStock(rows, p, w, q) ==
  IF /\ q <= sbReorder[p]
     /\ sbReorder[p] > 0
     /\ ~\E i \in 1..Len(rows) : /\ rows[i].product_id = p
                                 /\ rows[i].warehouse_id = w
                                 /\ ~rows[i].is_acknowledged
  THEN Append(rows, AlertRow(p, w, q))
  ELSE rows

\* stock.quantity CHECK (quantity >= 0): the write the table accepts
StockCheck(q) == q >= 0

\* newStock?.quantity || quantity : a missing row and a quantity of 0 both
\* fall through to the request's own quantity
QuantityAfter(s, pw, q) == IF pw \in DOMAIN s /\ s[pw] # 0 THEN s[pw] ELSE q

\* StockOperationModal.handleSubmit, type 'receipt': insert into stock_receipts
ClientCreateReceipt(p, w, q) ==
  IF q <= 0
  THEN /\ last' = Response("client_create_receipt", 500)
       /\ UNCHANGED <<serverVars, clientVars, now>>
  ELSE /\ sbNextReceipt + 1 \in ReceiptIds
       /\ sbReceipts' = Save(sbReceipts, sbNextReceipt + 1,
                             [product_id |-> p, warehouse_id |-> w, quantity |-> q,
                              status |-> "pending", completed_at |-> NoDate])
       /\ sbNextReceipt' = sbNextReceipt + 1
       /\ last' = Response("client_create_receipt", 200)
       /\ UNCHANGED <<serverVars, sbStock, sbLedger, sbAlerts, sbReorder, now>>

\* StockReceipts.handleComplete, offered for the receipts shown as pending
ClientComplete(r) ==
  /\ r \in DOMAIN sbReceipts
  /\ sbReceipts[r].status = "pending"
  /\ Len(sbLedger) < MaxLedger
  /\ LET row == sbReceipts[r]
         pw == <<row.product_id, row.warehouse_id>>
         newQty == IF pw \in DOMAIN sbStock THEN sbStock[pw] + row.quantity ELSE row.quantity
         written == IF StockCheck(newQty) THEN Save(sbStock, pw, newQty) ELSE sbStock
     IN /\ sbReceipts' = [sbReceipts EXCEPT ![r].status = "completed",
                                             ![r].completed_at = now]
        /\ sbStock' = written
        /\ sbAlerts' = IF StockCheck(newQty)
                       THEN CheckLowStock(sbAlerts, row.product_id, row.warehouse_id, newQty)
                       ELSE sbAlerts
        /\ sbLedger' = Append(sbLedger,
                              LedgerEntry(row.product_id, row.warehouse_id, row.quantity,
                                          QuantityAfter(written, pw, row.quantity), "receipt"))
  /\ now' = now + 1
  /\ last' = Response("client_complete", 200)
  /\ UNCHANGED <<serverVars, sbReorder, sbNextReceipt>>

\* StockOperationModal.handleSubmit, type 'adjustment'
ClientAdjust(p, w, change) ==
  IF change = 0
  THEN /\ last' = Response("client_adjust", 500)
       /\ UNCHANGED <<serverVars, clientVars, now>>
  ELSE LET pw == <<p, w>>
           newQty == IF pw \in DOMAIN sbStock THEN sbStock[pw] + change ELSE change
           written == IF StockCheck(newQty) THEN Save(sbStock, pw, newQty) ELSE sbStock
       IN /\ Len(sbLedger) < MaxLedger
          /\ sbStock' = written
          /\ sbAlerts' = IF StockCheck(newQty) THEN CheckLowStock(sbAlerts, p, w, newQty)
                         ELSE sbAlerts
          /\ sbLedger' = Append(sbLedger, LedgerEntry(p, w, change,
                                                      QuantityAfter(written, pw, change),
                                                      "adjustment"))
          /\ last' = Response("client_adjust", 200)
          /\ UNCHANGED <<serverVars, sbReceipts, sbReorder, sbNextReceipt, now>>

\* policy "Admins and managers can acknowledge alerts": the update reaches the
\* row only for a signed-in user with one of these roles; the model's users
\* are managers, NoUser is a browser without a session
CanAcknowledge(u) == u # NoUser

\* LowStockAlerts.handleAcknowledge, offered for the alerts shown as not
\* acknowledged
ClientAcknowledge(i, u) ==
  /\ i \in 1..Len(sbAlerts)
  /\ ~sbAlerts[i].is_acknowledged
  /\ sbAlerts' = IF CanAcknowledge(u)
                 THEN [sbAlerts EXCEPT ![i].is_acknowledged = TRUE,
                                       ![i].acknowledged_by = u,
                                       ![i].acknowledged_at = now]
                 ELSE sbAlerts
  /\ now' = IF CanAcknowledge(u) THEN now + 1 ELSE now
  /\ last' = Response("client_acknowledge", 200)
  /\ UNCHANGED <<serverVars, sbStock, sbLedger, sbReceipts, sbReorder, sbNextReceipt>>

\* ---------------------------------------------------------------- password reset
\* email.toLowerCase()
ToLowerCase(email) == IF email = "ANN@X" THEN "ann@x" ELSE email

\* Date.now() + 10 * 60 * 1000, one tick of the clock being five minutes
ExpiresAt(t) == t + 2

\* body of the forgot-password response for an email that is no user's
UnknownEmailBody == [message |-> "If the email exists, an OTP has been sent"]

\* body of the forgot-password response after an OTP was stored
OtpSentBody(otp) ==
  [message |-> "OTP sent to email", dev_otp |-> otp,
   dev_note |-> "OTP is included in response for development only"]

\* POST /api/auth/forgot-password
ForgotPassword(email) ==
  IF email = NoEmail
  THEN /\ last' = Response("forgot_password", 400)
       /\ UNCHANGED <<clientVars, otps, alertVars, inflight, stock, ledger, receipts, deliveries,
                      nextReceipt, nextDelivery, now>>
  ELSE IF ToLowerCase(email) \notin Users
  THEN /\ last' = [op |-> "forgot_password", status |-> 200, body |-> UnknownEmailBody]
       /\ UNCHANGED <<clientVars, otps, alertVars, inflight, stock, ledger, receipts, deliveries,
                      nextReceipt, nextDelivery, now>>
  ELSE \E otp \in Codes :
         /\ Len(otps) < MaxOtps
         /\ otps' = Append(otps, [email |-> ToLowerCase(email), otp |-> otp,
                                  type |-> "password_reset", expires_at |-> ExpiresAt(now),
                                  is_used |-> FALSE])
         /\ last' = [op |-> "forgot_password", status |-> 200, body |-> OtpSentBody(otp)]
         /\ UNCHANGED <<clientVars, alertVars, inflight, stock, ledger, receipts, deliveries,
                        nextReceipt, nextDelivery, now>>

\* the OTP documents the query of verify-otp matches
ValidOtps(email, otp) ==
  {i \in 1..Len(otps) : /\ otps[i].email = ToLowerCase(email)
                        /\ otps[i].otp = otp
                        /\ otps[i].type = "password_reset"
                        /\ otps[i].is_used = FALSE
                        /\ otps[i].expires_at > now}

\* POST /api/auth/verify-otp up to await OTP.findOne({...}): without a sort
\* the query returns any one of the matching documents
VerifyFind(r, email, otp) ==
  /\ r \notin DOMAIN inflight
  /\ IF email = NoEmail
     THEN last' = Response("verify_otp", 400) /\ UNCHANGED inflight
     ELSE IF ValidOtps(email, otp) = {}
     THEN /\ last' = [op |-> "verify_otp", status |-> 400, error |-> "Invalid or expired OTP"]
          /\ UNCHANGED inflight
     ELSE \E i \in ValidOtps(email, otp) :
            /\ inflight' = Save(inflight, r, [pc |-> "otp_found", otpRecord |-> i,
                                              email |-> ToLowerCase(email)])
            /\ UNCHANGED last
  /\ UNCHANGED <<clientVars, otps, alertVars, stock, ledger, receipts, deliveries, nextReceipt,
                 nextDelivery, now>>

\* the payload of the reset token jwt.sign() signs
ResetToken(email) == [email |-> email, type |-> "password_reset"]

\* otpRecord.is_used = true; await otpRecord.save(); res.json({reset_token})
VerifySave(r) ==
  /\ r \in DOMAIN inflight /\ inflight[r].pc = "otp_found"
  /\ otps' = [otps EXCEPT ![inflight[r].otpRecord].is_used = TRUE]
  /\ inflight' = Done(r)
  /\ last' = [op |-> "verify_otp", status |-> 200,
              reset_token |-> ResetToken(inflight[r].email)]
  /\ UNCHANGED <<clientVars, alertVars, stock, ledger, receipts, deliveries, nextReceipt,
                 nextDelivery, now>>

\* time passes
Tick ==
  /\ now < MaxNow
  /\ now' = now + 1
  /\ UNCHANGED <<serverVars, clientVars, last>>

\* ---------------------------------------------------------------- system
Next ==
  \/ \E p \in Products, w \in Warehouses, q \in ReceiptQtys : CreateReceipt(p, w, q)
  \/ \E r \in ReceiptIds : CompleteReceipt(r)
  \/ \E p \in Products, w \in Warehouses, q \in DeliveryQtys : CreateDelivery(p, w, q)
  \/ \E d \in DeliveryIds : Pack(d)
  \/ \E d \in DeliveryIds : Deliver(d)
  \/ \E d \in DeliveryIds : DeleteDelivery(d)
  \/ \E p \in Products, from \in Warehouses, to \in Warehouses, q \in QtyInputs :
       Transfer(p, from, to, q)
  \/ \E p \in Products, w \in Warehouses, c \in QtyInputs : Adjust(p, w, c)

Spec == Init /\ [][Next]_vars

\* The API driven with the requests its screens send: positive quantities,
\* a transfer between two different warehouses, a non-zero adjustment
NextValid ==
  \/ \E p \in Products, w \in Warehouses, q \in ReceiptQtys : CreateReceipt(p, w, q)
  \/ \E r \in ReceiptIds : CompleteReceipt(r)
  \/ \E p \in Products, w \in Warehouses, q \in ReceiptQtys : CreateDelivery(p, w, q)
  \/ \E d \in DeliveryIds : Pack(d)
  \/ \E d \in DeliveryIds : Deliver(d)
  \/ \E d \in DeliveryIds : DeleteDelivery(d)
  \/ \E p \in Products, from \in Warehouses, q \in ReceiptQtys :
       \E to \in Warehouses \ {from} : Transfer(p, from, to, q)
  \/ \E p \in Products, w \in Warehouses, c \in QtyInputs \ {0} : Adjust(p, w, c)

SpecValid == Init /\ [][NextValid]_vars

\* The stock handlers given request bodies whose product_id is a product, a
\* well-formed id of no product, or no ObjectId at all
NextIds ==
  \/ \E p \in ProductIds, w \in Warehouses, q \in ReceiptQtys : CreateReceipt(p, w, q)
  \/ \E r \in ReceiptIds : CompleteReceipt(r)
  \/ \E p \in ProductIds, w \in Warehouses, q \in ReceiptQtys : CreateDelivery(p, w, q)
  \/ \E p \in ProductIds, from \in Warehouses, q \in ReceiptQtys :
       \E to \in Warehouses \ {from} : Transfer(p, from, to, q)
  \/ \E p \in ProductIds, w \in Warehouses, c \in ReceiptQtys : Adjust(p, w, c)

SpecIds == Init /\ [][NextIds]_vars

\* new LowStockAlert({...}) as the schema defaults leave it: an active alert
ActiveAlert(p, w) ==
  [product_id |-> p, warehouse_id |-> w, is_acknowledged |-> FALSE,
   acknowledged_by |-> NoUser, acknowledged_at |-> NoDate]

\* The API's store with a catalog and an alert collection: the products carry a
\* reorder level, and the LowStockAlert collection, which the API reads and
\* updates and none of its routes fills, holds the active alerts it was given
InitAlerts ==
  /\ stock = <<>>
  /\ ledger = <<>>
  /\ receipts = <<>>
  /\ deliveries = <<>>
  /\ nextReceipt = 0
  /\ nextDelivery = 0
  /\ \E S \in SUBSET AlertIds :
       alerts = [a \in S |-> ActiveAlert("p1", IF a = 1 THEN "w1" ELSE "w2")]
  /\ reorder \in [Products -> ReorderLevels]
  /\ inflight = <<>>
  /\ otps = <<>>
  /\ sbStock = <<>>
  /\ sbLedger = <<>>
  /\ sbReceipts = <<>>
  /\ sbAlerts = <<>>
  /\ sbReorder = [p \in Products |-> 0]
  /\ sbNextReceipt = 0
  /\ now = 1
  /\ last = Response("none", 0)

\* receipts, the three delivery steps, and the acknowledgement of an alert that
\* is still active or of an id the collection does not hold
NextAlerts ==
  \/ \E p \in Products, w \in Warehouses, q \in ReceiptQtys : CreateReceipt(p, w, q)
  \/ \E r \in ReceiptIds : CompleteReceipt(r)
  \/ \E p \in Products, w \in Warehouses, q \in ReceiptQtys : CreateDelivery(p, w, q)
  \/ \E d \in DeliveryIds : Pack(d)
  \/ \E d \in DeliveryIds : Deliver(d)
  \/ \E a \in AlertIds, u \in UserIds :
       /\ a \in DOMAIN alerts => ~alerts[a].is_acknowledged
       /\ Acknowledge(a, u)

SpecAlerts == InitAlerts /\ [][NextAlerts]_vars

\* an order that was created at `picked` and packed at `packed`
PackedOrder(q, picked, packed) ==
  [product_id |-> "p1", warehouse_id |-> "w1", quantity |-> q, status |-> "Packed",
   picked_at |-> picked, packed_at |-> packed, delivered_at |-> NoDate]

\* The API's store after the seed script gave the pair its stock and two orders
\* on the pair were created and packed: none of these wrote the ledger
InitConcurrent ==
  /\ \E b \in StartBalances : stock = [pw \in {<<"p1", "w1">>} |-> b]
  /\ ledger = <<>>
  /\ receipts = <<>>
  /\ \E q1 \in ReceiptQtys, q2 \in ReceiptQtys :
       deliveries = [d \in OrderIds |-> IF d = 1 THEN PackedOrder(q1, 1, 3)
                                                 ELSE PackedOrder(q2, 2, 4)]
  /\ nextReceipt = 0
  /\ nextDelivery = Cardinality(OrderIds)
  /\ alerts = <<>>
  /\ reorder = [p \in Products |-> 0]
  /\ inflight = <<>>
  /\ otps = <<>>
  /\ sbStock = <<>>
  /\ sbLedger = <<>>
  /\ sbReceipts = <<>>
  /\ sbAlerts = <<>>
  /\ sbReorder = [p \in Products |-> 0]
  /\ sbNextReceipt = 0
  /\ now = 5
  /\ last = Response("none", 0)

\* deliver requests whose database calls interleave
NextConcurrent ==
  \/ \E r \in Requests, d \in OrderIds : DeliverFind(r, d)
  \/ \E r \in Requests : DeliverCheckStock(r)
  \/ \E r \in Requests : DeliverSaveStock(r)
  \/ \E r \in Requests : DeliverSaveLedger(r)
  \/ \E r \in Requests : DeliverSaveStatus(r)

SpecConcurrent == InitConcurrent /\ [][NextConcurrent]_vars

\* a deliver request sent when no other request is being handled
DeliverAlone(r, d) == inflight = <<>> /\ DeliverFind(r, d)

\* deliver requests sent one after the other, each of whose database calls
\* can reject
NextDeliverFaults ==
  \/ \E r \in Requests, d \in OrderIds : DeliverAlone(r, d)
  \/ \E r \in Requests : DeliverCheckStock(r)
  \/ \E r \in Requests : DeliverSaveStock(r)
  \/ \E r \in Requests : DeliverSaveLedger(r)
  \/ \E r \in Requests : DeliverSaveStatus(r)
  \/ \E r \in Requests : DeliverFail(r)

SpecDeliverFaults == InitConcurrent /\ [][NextDeliverFaults]_vars

\* The database after seeding, before any order or receipt: one stock row,
\* written without a ledger entry
InitTransferFaults ==
  /\ \E b \in StartBalances : stock = [pw \in {<<"p1", "w1">>} |-> b]
  /\ ledger = <<>>
  /\ receipts = <<>>
  /\ deliveries = <<>>
  /\ nextReceipt = 0
  /\ nextDelivery = 0
  /\ alerts = <<>>
  /\ reorder = [p \in Products |-> 0]
  /\ inflight = <<>>
  /\ otps = <<>>
  /\ sbStock = <<>>
  /\ sbLedger = <<>>
  /\ sbReceipts = <<>>
  /\ sbAlerts = <<>>
  /\ sbReorder = [p \in Products |-> 0]
  /\ sbNextReceipt = 0
  /\ now = 1
  /\ last = Response("none", 0)

\* a transfer request for a quantity the source holds, sent when no other
\* request is being handled
TransferAlone(r, p, from, to, q) ==
  /\ inflight = <<>>
  /\ Bal(stock, <<p, from>>) >= q
  /\ TransferFindSource(r, p, from, to, q)

\* transfer requests sent one after the other, each of whose database calls
\* can reject
NextTransferFaults ==
  \/ \E r \in Requests, p \in Products, from \in Warehouses, q \in ReceiptQtys :
       \E to \in Warehouses \ {from} : TransferAlone(r, p, from, to, q)
  \/ \E r \in Requests : TransferSaveSource(r)
  \/ \E r \in Requests : TransferFindDest(r)
  \/ \E r \in Requests : TransferSaveDest(r)
  \/ \E r \in Requests : TransferLogOut(r)
  \/ \E r \in Requests : TransferLogIn(r)
  \/ \E r \in Requests : TransferFail(r)

SpecTransferFaults == InitTransferFaults /\ [][NextTransferFaults]_vars

\* the password reset of the API: requests for an OTP, verify requests whose
\* database calls interleave, and the clock
NextAuth ==
  \/ \E email \in EmailInputs : ForgotPassword(email)
  \/ \E r \in Requests, email \in EmailInputs, otp \in CodeInputs : VerifyFind(r, email, otp)
  \/ \E r \in Requests : VerifySave(r)
  \/ Tick

SpecAuth == Init /\ [][NextAuth]_vars

\* The Supabase store after the catalog was set up: products with their
\* reorder levels, no stock rows, no ledger rows
InitClient ==
  /\ stock = <<>>
  /\ ledger = <<>>
  /\ receipts = <<>>
  /\ deliveries = <<>>
  /\ nextReceipt = 0
  /\ nextDelivery = 0
  /\ alerts = <<>>
  /\ reorder = [p \in Products |-> 0]
  /\ inflight = <<>>
  /\ otps = <<>>
  /\ sbStock = <<>>
  /\ sbLedger = <<>>
  /\ sbReceipts = <<>>
  /\ sbAlerts = <<>>
  /\ sbReorder \in [Products -> ReorderLevels]
  /\ sbNextReceipt = 0
  /\ now = 1
  /\ last = Response("none", 0)

NextClient ==
  \/ \E p \in Products, w \in Warehouses, q \in DeliveryQtys : ClientCreateReceipt(p, w, q)
  \/ \E r \in ReceiptIds : ClientComplete(r)
  \/ \E p \in Products, w \in Warehouses, c \in QtyInputs : ClientAdjust(p, w, c)
  \/ \E i \in AlertIds, u \in UserIds : ClientAcknowledge(i, u)

SpecClient == InitClient /\ [][NextClient]_vars

TypeOK ==
  /\ DOMAIN stock \subseteq ProductIds \X Warehouses
  /\ \A pw \in DOMAIN stock : stock[pw] \in Int
  /\ Len(ledger) <= MaxLedger
  /\ DOMAIN receipts \subseteq ReceiptIds
  /\ DOMAIN deliveries \subseteq DeliveryIds

\* ================================================================ properties
PairOf(e) == <<e.product_id, e.warehouse_id>>

RECURSIVE LedgerSum(_, _)
\* the sum of quantity_change over the ledger entries of one pair
LedgerSum(l, pw) ==
  IF l = <<>> THEN 0
  ELSE (IF PairOf(Head(l)) = pw THEN Head(l).quantity_change ELSE 0) + LedgerSum(Tail(l), pw)

\* the entries of one pair, of one type
EntriesOf(l, pw, type) == {i \in 1..Len(l) : PairOf(l[i]) = pw /\ l[i].type = type}

\* the step wrote the balance of pw: created the row or changed its quantity
Mutated(s, s2, pw) == pw \in DOMAIN s2 /\ (pw \notin DOMAIN s \/ s[pw] # s2[pw])

\* the positions the step appended for pw
Appended(l, l2, pw) == {i \in (Len(l) + 1)..Len(l2) : PairOf(l2[i]) = pw}

\* C1: once every receipt that was created is completed, for every (product,
\* warehouse) pair the stored balance (0 when absent) equals the sum of
\* quantity_change over the ledger entries of that pair.
C1_BalanceIsLedgerSum ==
  (\A r \in DOMAIN receipts : receipts[r].status = "completed") =>
    \A pw \in Pairs : Bal(stock, pw) = LedgerSum(ledger, pw)

\* a step that wrote a balance appended for that pair one entry (one per leg when
\* both legs of a transfer hit the same pair) and the last one carries the balance
EntryFollowsBalance(s, s2, l, l2) ==
  \A pw \in Pairs :
    Mutated(s, s2, pw) =>
      /\ Len(l2) >= Len(l) /\ SubSeq(l2, 1, Len(l)) = l
      /\ LET new == Appended(l, l2, pw)
         IN /\ new # {}
            /\ \A i \in new : i = Len(l2) \/ PairOf(l2[i + 1]) # pw => l2[i].quantity_after = s2[pw]
            /\ \/ Cardinality(new) = 1
               \/ /\ Cardinality(new) = 2
                  /\ \A i \in new : l2[i].type \in {"transfer_out", "transfer_in"}

\* C2: every operation that changes a stored balance appends exactly one ledger
\* entry for that pair whose quantity_after is the balance right after the write,
\* in the API's store and in the store the Supabase screens write.
C2_EntryFollowsBalance ==
  [][/\ EntryFollowsBalance(stock, stock', ledger, ledger')
     /\ EntryFollowsBalance(sbStock, sbStock', sbLedger, sbLedger')]_vars

\* C2, the API handlers alone (complete, deliver, transfer, adjust of server/index.js)
C2_ApiEntryFollowsBalance == [][EntryFollowsBalance(stock, stock', ledger, ledger')]_vars

\* C3: the balance a Deliver step writes is never negative, whatever the order
\* quantity and the balance before.
C3_DeliverNeverNegative ==
  [][\A d \in DeliveryIds : Deliver(d) =>
       \A pw \in Pairs : Mutated(stock, stock', pw) => stock'[pw] >= 0]_vars

C3_Witness ==
  /\ last = Response("deliver", 200)
  /\ \E d \in DOMAIN deliveries :
       /\ deliveries[d].status = "Delivered"
       /\ stock[<<deliveries[d].product_id, deliveries[d].warehouse_id>>] = 0

C5_OneEntryPerReceipt ==
  \A pw \in Pairs :
    LET rs == {r \in DOMAIN receipts : <<receipts[r].product_id, receipts[r].warehouse_id>> = pw}
    IN (\A r \in rs : receipts[r].status = "completed") =>
         Cardinality(EntriesOf(ledger, pw, "receipt")) = Cardinality(rs)

\* C6: completing a receipt that is already completed changes neither the
\* balances nor the ledger.
C6_CompleteOnce ==
  [][\A r \in ReceiptIds :
       (r \in DOMAIN receipts /\ receipts[r].status = "completed" /\ CompleteReceipt(r)) =>
         UNCHANGED <<stock, ledger>>]_vars

\* C7: creating a delivery order and packing it change no balance and no ledger
\* entry; a `delivery` entry is appended, and the order quantity subtracted, only
\* by a step that moves an order from Packed to Delivered.
C7_OnlyDeliverTouchesStock ==
  [][/\ \A p \in Products, w \in Warehouses, q \in DeliveryQtys :
          CreateDelivery(p, w, q) => UNCHANGED <<stock, ledger>>
     /\ \A d \in DeliveryIds : Pack(d) => UNCHANGED <<stock, ledger>>
     /\ \A i \in (Len(ledger) + 1)..Len(ledger') :
          ledger'[i].type = "delivery" =>
            \E d \in DOMAIN deliveries :
              /\ deliveries[d].status = "Packed"
              /\ d \in DOMAIN deliveries' /\ deliveries'[d].status = "Delivered"
              /\ ledger'[i].quantity_change = 0 - deliveries[d].quantity]_vars

C7_Witness ==
  \E d \in DOMAIN deliveries :
    /\ deliveries[d].status = "Packed"
    /\ deliveries[d].packed_at # NoDate
    /\ last = Response("pack", 200)
    /\ Bal(stock, <<deliveries[d].product_id, deliveries[d].warehouse_id>>) >= deliveries[d].quantity

\* C8: delivering a Packed order of quantity q from a balance b >= q stores b - q,
\* appends one `delivery` entry with quantity_change -q and quantity_after b - q,
\* and marks the order Delivered with delivered_at set.
C8_DeliverSubtracts ==
  [][\A d \in DeliveryIds :
       (/\ d \in DOMAIN deliveries
        /\ deliveries[d].status = "Packed"
        /\ Bal(stock, <<deliveries[d].product_id, deliveries[d].warehouse_id>>) >= deliveries[d].quantity
        /\ Deliver(d)) =>
         LET dl == deliveries[d]
             pw == <<dl.product_id, dl.warehouse_id>>
         IN /\ stock' = [stock EXCEPT ![pw] = stock[pw] - dl.quantity]
            /\ ledger' = Append(ledger, [product_id |-> dl.product_id,
                                         warehouse_id |-> dl.warehouse_id,
                                         quantity_change |-> 0 - dl.quantity,
                                         quantity_after |-> stock[pw] - dl.quantity,
                                         type |-> "delivery"])
            /\ deliveries'[d].status = "Delivered"
            /\ deliveries'[d].delivered_at = now /\ now # NoDate
            /\ last' = Response("deliver", 200)]_vars

C8_Witness ==
  /\ last = Response("deliver", 200)
  /\ \E d \in DOMAIN deliveries :
       /\ deliveries[d].status = "Delivered"
       /\ deliveries[d].delivered_at # NoDate
       /\ stock[<<deliveries[d].product_id, deliveries[d].warehouse_id>>] = 1
       /\ ledger[Len(ledger)].type = "delivery"
       /\ ledger[Len(ledger)].quantity_after = 1

\* C9: Pack on an order whose status is not Picked answers 400 and leaves the
\* order, its status and its timestamps as they were.
C9_PackOnlyFromPicked ==
  [][\A d \in DeliveryIds :
       (d \in DOMAIN deliveries /\ deliveries[d].status # "Picked" /\ Pack(d)) =>
         /\ last' = Response("pack", 400)
         /\ deliveries' = deliveries]_vars

C9_Witness ==
  /\ last = Response("pack", 400)
  /\ \E d \in DOMAIN deliveries : deliveries[d].status = "Packed"

\* C10: Deliver on an order whose status is not Packed answers 400 and leaves the
\* order, the balances and the ledger as they were.
C10_DeliverOnlyFromPacked ==
  [][\A d \in DeliveryIds :
       (d \in DOMAIN deliveries /\ deliveries[d].status # "Packed" /\ Deliver(d)) =>
         /\ last' = Response("deliver", 400)
         /\ UNCHANGED <<deliveries, stock, ledger>>]_vars

C10_Witness ==
  /\ last = Response("deliver", 400)
  /\ \E d \in DOMAIN deliveries : deliveries[d].status = "Delivered"

\* C11: deleting an order whose status is not Delivered answers 200 and removes
\* the order, changing no balance and no ledger entry; deleting a Delivered order
\* answers 400 and the order stays as it was.
C11_DeleteUnlessDelivered ==
  [][\A d \in DeliveryIds :
       (d \in DOMAIN deliveries /\ DeleteDelivery(d)) =>
         /\ UNCHANGED <<stock, ledger>>
         /\ IF deliveries[d].status = "Delivered"
            THEN last' = Response("delete_delivery", 400) /\ deliveries' = deliveries
            ELSE /\ last' = Response("delete_delivery", 200)
                 /\ DOMAIN deliveries' = DOMAIN deliveries \ {d}
                 /\ \A x \in DOMAIN deliveries' : deliveries'[x] = deliveries[x]]_vars

C11_Witness ==
  /\ last = Response("delete_delivery", 200)
  /\ nextDelivery = 1 /\ 1 \notin DOMAIN deliveries
  /\ \E pw \in DOMAIN stock : stock[pw] >= 1
  /\ ledger # <<>>

\* C13: an adjustment by d at a pair with balance b (0 when absent) stores b + d,
\* negative or not, and appends one `adjustment` entry with quantity_change d and
\* quantity_after b + d.
C13_AdjustAppliesDelta ==
  [][\A p \in Products, w \in Warehouses, c \in QtyInputs :
       Adjust(p, w, c) =>
         /\ DOMAIN stock' = DOMAIN stock \cup {<<p, w>>}
         /\ stock'[<<p, w>>] = Bal(stock, <<p, w>>) + c
         /\ \A pw \in DOMAIN stock \ {<<p, w>>} : stock'[pw] = stock[pw]
         /\ ledger' = Append(ledger, [product_id |-> p, warehouse_id |-> w,
                                      quantity_change |-> c,
                                      quantity_after |-> Bal(stock, <<p, w>>) + c,
                                      type |-> "adjustment"])]_vars

C13_Witness ==
  /\ last = Response("adjust", 201)
  /\ ledger # <<>>
  /\ LET e == ledger[Len(ledger)]
     IN /\ e.type = "adjustment" /\ e.quantity_change = 0 - 1 /\ e.quantity_after = 0 - 1
        /\ stock[PairOf(e)] = 0 - 1

\* C14: creating a delivery order for a positive quantity larger than the available
\* balance of the pair (0 when there is no row) answers 400 with the available
\* quantity in the error, and creates no order.
C14_CreateRejectsInsufficient ==
  [][\A p \in Products, w \in Warehouses, q \in DeliveryQtys :
       (q >= 1 /\ Bal(stock, <<p, w>>) < q /\ CreateDelivery(p, w, q)) =>
         /\ last' = [op |-> "create_delivery", status |-> 400, error |-> "Insufficient stock",
                     available |-> Bal(stock, <<p, w>>)]
         /\ UNCHANGED <<deliveries, nextDelivery, stock, ledger>>]_vars

C14_Witness ==
  /\ last.op = "create_delivery" /\ last.status = 400
  /\ "available" \in DOMAIN last
  /\ last.available = 1
  /\ deliveries = <<>> /\ nextDelivery = 0

\* C15: Deliver on a Packed order whose quantity exceeds the balance available at
\* the time of the call answers 400 and changes neither the balance, nor the
\* ledger, nor the order, which stays Packed.
C15_DeliverRevalidates ==
  [][\A d \in DeliveryIds :
       (/\ d \in DOMAIN deliveries
        /\ deliveries[d].status = "Packed"
        /\ Bal(stock, <<deliveries[d].product_id, deliveries[d].warehouse_id>>) < deliveries[d].quantity
        /\ Deliver(d)) =>
         /\ last'.status = 400
         /\ UNCHANGED <<stock, ledger, deliveries>>]_vars

C15_Witness ==
  /\ last = Response("deliver", 400)
  /\ \E d \in DOMAIN deliveries :
       /\ deliveries[d].status = "Packed"
       /\ Bal(stock, <<deliveries[d].product_id, deliveries[d].warehouse_id>>) < deliveries[d].quantity

\* C16: create-delivery and transfer answer 400 to a quantity that is zero or
\* negative and leave balances, ledger, orders and receipts unchanged.
C16_RejectNonPositive ==
  [][/\ \A p \in Products, w \in Warehouses, q \in DeliveryQtys :
          (q <= 0 /\ CreateDelivery(p, w, q)) =>
            last'.status = 400 /\ UNCHANGED <<stock, ledger, deliveries, receipts>>
     /\ \A p \in Products, a \in Warehouses, b \in Warehouses, q \in QtyInputs :
          (q <= 0 /\ Transfer(p, a, b, q)) =>
            last'.status = 400 /\ UNCHANGED <<stock, ledger, deliveries, receipts>>]_vars

\* C16, the create-delivery handler alone
C16_CreateDeliveryRejectsNonPositive ==
  [][\A p \in Products, w \in Warehouses, q \in DeliveryQtys :
       (q <= 0 /\ CreateDelivery(p, w, q)) =>
         last'.status = 400 /\ UNCHANGED <<stock, ledger, deliveries, receipts>>]_vars

\* C19: in every reachable state every stored balance is >= 0.
C19_BalancesNonNegative == \A pw \in DOMAIN stock : stock[pw] >= 0

\* the step answered with an error and wrote no balance row, ledger entry,
\* receipt or order
Rejected ==
  /\ last'.status \in {400, 404}
  /\ UNCHANGED <<stock, ledger, receipts, deliveries>>

\* C17: receive, create-delivery, transfer and adjust answer a request whose
\* product_id is malformed or names no product with an error, and create no
\* balance row, ledger entry, receipt or order for it.
C17_RejectUnknownIdentity ==
  [][\A p \in ProductIds \ Products, w \in Warehouses, q \in ReceiptQtys :
       /\ CreateReceipt(p, w, q) => Rejected
       /\ CreateDelivery(p, w, q) => Rejected
       /\ Adjust(p, w, q) => Rejected
       /\ \A to \in Warehouses \ {w} : Transfer(p, w, to, q) => Rejected]_vars

\* C17, the malformed product_id alone
C17_RejectMalformedIdentity ==
  [][\A w \in Warehouses, q \in ReceiptQtys :
       /\ CreateReceipt(MalformedId, w, q) => Rejected
       /\ CreateDelivery(MalformedId, w, q) => Rejected
       /\ Adjust(MalformedId, w, q) => Rejected
       /\ \A to \in Warehouses \ {w} : Transfer(MalformedId, w, to, q) => Rejected]_vars

\* the step inserted an alert for the pair into the collection
AlertCreated(old, new, pw) ==
  \E a \in DOMAIN new \ DOMAIN old : <<new[a].product_id, new[a].warehouse_id>> = pw

\* C12: a step that writes a balance creates a low-stock alert for the pair if and
\* only if the balance written is <= the product's reorder level and the reorder
\* level is > 0.
C12_AlertIffLow ==
  [][\A pw \in Pairs :
       Mutated(stock, stock', pw) =>
         (AlertCreated(alerts, alerts', pw) <=>
            (stock'[pw] <= reorder[pw[1]] /\ reorder[pw[1]] > 0))]_vars

\* C12 for the check_low_stock trigger of the Supabase table: a write of the stock
\* row appends an alert exactly when the quantity is <= the reorder level, the
\* reorder level is > 0 and the pair has no alert that is still unacknowledged
C12_TriggerAlertIffLow ==
  [][\A pw \in Pairs :
       Mutated(sbStock, sbStock', pw) =>
         LET open == \E i \in 1..Len(sbAlerts) :
                       /\ <<sbAlerts[i].product_id, sbAlerts[i].warehouse_id>> = pw
                       /\ ~sbAlerts[i].is_acknowledged
             low == sbStock'[pw] <= sbReorder[pw[1]] /\ sbReorder[pw[1]] > 0
         IN IF low /\ ~open
            THEN /\ Len(sbAlerts') = Len(sbAlerts) + 1
                 /\ SubSeq(sbAlerts', 1, Len(sbAlerts)) = sbAlerts
                 /\ <<sbAlerts'[Len(sbAlerts')].product_id,
                      sbAlerts'[Len(sbAlerts')].warehouse_id>> = pw
            ELSE sbAlerts' = sbAlerts]_vars

\* C18: acknowledging an alert of the collection sets is_acknowledged, records
\* the acknowledger and the time of the call, and changes no balance, no ledger
\* entry and no other alert; acknowledging an id the collection does not hold
\* answers 404 and changes nothing.
C18_AcknowledgeFrame ==
  [][\A a \in AlertIds, u \in UserIds :
       Acknowledge(a, u) =>
         /\ UNCHANGED <<stock, ledger, receipts, deliveries>>
         /\ IF a \in DOMAIN alerts
            THEN /\ DOMAIN alerts' = DOMAIN alerts
                 /\ alerts'[a].is_acknowledged
                 /\ alerts'[a].acknowledged_by = (IF u = NoUser THEN "system" ELSE u)
                 /\ alerts'[a].acknowledged_at = now /\ now # NoDate
                 /\ alerts'[a].product_id = alerts[a].product_id
                 /\ alerts'[a].warehouse_id = alerts[a].warehouse_id
                 /\ \A b \in DOMAIN alerts \ {a} : alerts'[b] = alerts[b]
                 /\ last' = Response("acknowledge", 200)
            ELSE /\ alerts' = alerts
                 /\ last' = Response("acknowledge", 404)]_vars

C18_Witness ==
  /\ last = Response("acknowledge", 200)
  /\ \E a \in DOMAIN alerts, b \in DOMAIN alerts :
       /\ alerts[a].is_acknowledged /\ alerts[a].acknowledged_by = "u1"
       /\ alerts[a].acknowledged_at # NoDate
       /\ ~alerts[b].is_acknowledged
  /\ \E pw \in DOMAIN stock : stock[pw] >= 1
  /\ ledger # <<>>

\* C20: a deliver request writes the balance it read minus its own quantity, and
\* logs that value, whatever other requests have stored in between; so two
\* requests for different orders of a pair that both read the starting balance
\* leave a balance that is not the start minus both quantities, and two ledger
\* entries that no single history produces.
C20_StaleWrite ==
  [][\A r \in Requests :
       /\ (r \in DOMAIN inflight /\ DeliverSaveStock(r)) =>
            LET o == deliveries[inflight[r].delivery]
            IN stock'[<<o.product_id, o.warehouse_id>>] =
                 Max(0, inflight[r].quantity - o.quantity)
       /\ (r \in DOMAIN inflight /\ DeliverSaveLedger(r)) =>
            ledger'[Len(ledger')].quantity_after = inflight[r].quantity]_vars

C20_Witness ==
  /\ inflight = <<>>
  /\ \A d \in OrderIds : d \in DOMAIN deliveries /\ deliveries[d].status = "Delivered"
  /\ Len(ledger) = 2
  /\ LET e1 == ledger[1]
         e2 == ledger[2]
         start == e1.quantity_after - e1.quantity_change
         pw == PairOf(e1)
     IN /\ PairOf(e2) = pw
        /\ e1.type = "delivery" /\ e2.type = "delivery"
        /\ e2.quantity_after - e2.quantity_change = start
        /\ e2.quantity_after # e1.quantity_after + e2.quantity_change
        /\ stock[pw] \in {e1.quantity_after, e2.quantity_after}
        /\ stock[pw] # start + e1.quantity_change + e2.quantity_change
        /\ start + e1.quantity_change + e2.quantity_change >= 0
        /\ deliveries[1].quantity # deliveries[2].quantity

\* C21: a deliver request writes the balance, and appends the delivery entry,
\* of an order only if no request has done so for that order before: the order
\* is not Delivered yet and no other request for it is past that write.
C21_DeliverOnce ==
  [][\A r \in Requests :
       /\ (r \in DOMAIN inflight /\ DeliverSaveStock(r)) =>
            /\ deliveries[inflight[r].delivery].status # "Delivered"
            /\ \A x \in DOMAIN inflight \ {r} :
                 inflight[x].delivery = inflight[r].delivery =>
                   inflight[x].pc \notin {"saved", "logged"}
       /\ (r \in DOMAIN inflight /\ DeliverSaveLedger(r)) =>
            /\ deliveries[inflight[r].delivery].status # "Delivered"
            /\ \A x \in DOMAIN inflight \ {r} :
                 inflight[x].delivery = inflight[r].delivery => inflight[x].pc # "logged"]_vars

\* C22: a step appends a ledger entry for a pair only when it wrote the balance
\* of that pair, and the last entry it appends for the pair carries the balance
\* it wrote.
C22_EntryOnlyAfterMutation ==
  [][\A i \in (Len(ledger) + 1)..Len(ledger') :
       LET pw == PairOf(ledger'[i])
       IN /\ Mutated(stock, stock', pw)
          /\ (\A j \in (i + 1)..Len(ledger') : PairOf(ledger'[j]) # pw) =>
               ledger'[i].quantity_after = stock'[pw]]_vars

\* the status an order may have after a step, given the one it had
Advances(from, to) ==
  \/ to = from
  \/ from = "Picked" /\ to = "Packed"
  \/ from = "Packed" /\ to = "Delivered"

\* C25: an order starts as Picked, its status stays or advances one step along
\* Picked -> Packed -> Delivered, and once it is Delivered no step changes or
\* removes the order.
C25_OrderLifecycle ==
  [][/\ \A d \in DOMAIN deliveries' \ DOMAIN deliveries : deliveries'[d].status = "Picked"
     /\ \A d \in DOMAIN deliveries :
          /\ d \in DOMAIN deliveries' =>
               Advances(deliveries[d].status, deliveries'[d].status)
          /\ deliveries[d].status = "Delivered" =>
               d \in DOMAIN deliveries' /\ deliveries'[d] = deliveries[d]]_vars

\* C25, the status alone
C25_StatusAdvances ==
  [][/\ \A d \in DOMAIN deliveries' \ DOMAIN deliveries : deliveries'[d].status = "Picked"
     /\ \A d \in DOMAIN deliveries :
          /\ d \in DOMAIN deliveries' =>
               Advances(deliveries[d].status, deliveries'[d].status)
          /\ deliveries[d].status = "Delivered" => d \in DOMAIN deliveries']_vars

\* C26: every step leaves the ledger entries that exist in place and unchanged;
\* it can only add entries after them.
C26_LedgerAppendOnly ==
  [][/\ Len(ledger') >= Len(ledger)
     /\ \A i \in 1..Len(ledger) : ledger'[i] = ledger[i]]_vars

C26_Witness ==
  /\ Len(ledger) >= 3
  /\ ledger[1].type = "receipt" /\ ledger[2].type = "receipt"
  /\ ledger[3].type = "delivery"
  /\ ledger[3].quantity_after = ledger[2].quantity_after + ledger[3].quantity_change

\* the stock of a product over all warehouses
TotalStock(s, p) == Bal(s, <<p, "w1">>) + Bal(s, <<p, "w2">>)

\* C28: a transfer of a positive quantity between two distinct warehouses
\* leaves the total stock of the product unchanged, whatever the source holds.
C28_TransferConserves ==
  [][\A p \in Products, a \in Warehouses, b \in Warehouses, q \in ReceiptQtys :
       (a # b /\ Transfer(p, a, b, q) /\ last' = Response("transfer", 201)) =>
         TotalStock(stock', p) = TotalStock(stock, p)]_vars

\* C28, for a source that holds the quantity: the total is unchanged; for a
\* source that holds less, the total grows by what the source lacked.
C28_TransferConservesWhenCovered ==
  [][\A p \in Products, a \in Warehouses, b \in Warehouses, q \in ReceiptQtys :
       (a # b /\ Transfer(p, a, b, q) /\ last' = Response("transfer", 201)) =>
         LET had == Bal(stock, <<p, a>>)
         IN IF had >= q
            THEN TotalStock(stock', p) = TotalStock(stock, p)
            ELSE TotalStock(stock', p) = TotalStock(stock, p) + (q - had)]_vars

\* C27: at any time a (product, warehouse) pair has at most one alert that is
\* not acknowledged in low_stock_alerts.
C27_OneActiveAlertPerPair ==
  \A i \in 1..Len(sbAlerts), j \in 1..Len(sbAlerts) :
    (/\ PairOf(sbAlerts[i]) = PairOf(sbAlerts[j])
     /\ ~sbAlerts[i].is_acknowledged
     /\ ~sbAlerts[j].is_acknowledged) => i = j

\* a second alert of the pair after the first was acknowledged, and then a
\* third qualifying write of the balance that inserted nothing
C27_Witness ==
  /\ Len(sbAlerts) = 2
  /\ PairOf(sbAlerts[1]) = PairOf(sbAlerts[2])
  /\ sbAlerts[1].is_acknowledged /\ ~sbAlerts[2].is_acknowledged
  /\ Len(sbLedger) = 3
  /\ PairOf(sbLedger[3]) = PairOf(sbAlerts[2])
  /\ sbStock[PairOf(sbAlerts[2])] <= sbReorder[sbAlerts[2].product_id]
  /\ sbStock[PairOf(sbAlerts[2])] # sbAlerts[2].current_quantity

\* the orders with status Delivered
DeliveredOrders == {d \in DOMAIN deliveries : deliveries[d].status = "Delivered"}

\* C23: a deliver call that fails leaves the order Packed, leaves the balance
\* of the pair at what the call read, and leaves the ledger with the delivery
\* entries of the delivered orders only, one for each.
C23_FailedDeliverLeavesNoEffect ==
  [][\A r \in Requests :
       (r \in DOMAIN inflight /\ DeliverFail(r)) =>
         LET d == inflight[r].delivery
             pw == <<deliveries[d].product_id, deliveries[d].warehouse_id>>
         IN /\ deliveries'[d].status = "Packed"
            /\ inflight[r].pc # "found" => stock'[pw] = inflight[r].available
            /\ Cardinality(EntriesOf(ledger', pw, "delivery")) =
                 Cardinality(DeliveredOrders')]_vars

\* C23, for a call refused by its own checks (order not Packed, stock short):
\* nothing is written
C23_RefusedDeliverLeavesNoEffect ==
  [][\A r \in Requests, d \in OrderIds :
       ((DeliverFind(r, d) \/ DeliverCheckStock(r)) /\ last' = Response("deliver", 400)) =>
         UNCHANGED <<stock, ledger, deliveries>>]_vars

\* C24: a transfer that fails part-way keeps what its earlier steps stored:
\* the source balance it wrote, the destination balance it wrote, the
\* transfer_out entry it appended; the failing step itself changes neither a
\* balance nor the ledger.
C24_FailedTransferKeepsEffects ==
  [][\A r \in Requests :
       (r \in DOMAIN inflight /\ TransferFail(r)) =>
         LET t == inflight[r]
         IN /\ t.pc # "source_found" =>
                 stock'[<<t.product_id, t.from>>] = t.fromQty
            /\ t.pc \in {"dest_saved", "out_logged"} =>
                 stock'[<<t.product_id, t.to>>] = t.toQty
            /\ t.pc = "out_logged" =>
                 /\ ledger' # <<>>
                 /\ ledger'[Len(ledger')].type = "transfer_out"
                 /\ ledger'[Len(ledger')].quantity_after = t.fromQty
            /\ ledger' = ledger]_vars

\* the source was decremented, the destination has no row, no entry was logged
C24_Witness ==
  /\ last = Response("transfer", 400)
  /\ inflight = <<>>
  /\ stock[<<"p1", "w1">>] = 1
  /\ <<"p1", "w2">> \notin DOMAIN stock
  /\ ledger = <<>>

\* both balances written and the transfer_out entry alone in the ledger
C24_WitnessOneEntry ==
  /\ last = Response("transfer", 400)
  /\ inflight = <<>>
  /\ <<"p1", "w2">> \in DOMAIN stock
  /\ Len(ledger) = 1 /\ ledger[1].type = "transfer_out"

\* C29: verify-otp issues a reset token only for an OTP document that is not
\* used at the moment it is marked used, so that a document yields a token at
\* most once.
C29_TokenOncePerOtp ==
  [][\A r \in Requests :
       (r \in DOMAIN inflight /\ VerifySave(r)) =>
         otps[inflight[r].otpRecord].is_used = FALSE]_vars

\* C29, at the query: a verify request with an email and code for which no
\* unused, unexpired document exists is answered 400 and writes nothing
C29_InvalidOtpRejected ==
  [][\A r \in Requests, email \in EmailInputs, otp \in CodeInputs :
       (VerifyFind(r, email, otp) /\ ValidOtps(email, otp) = {}) =>
         /\ last'.status = 400
         /\ UNCHANGED <<otps, inflight>>]_vars

\* C30: the response to a forgot-password request with an email is the one an
\* email of no user gets, whether or not the email is a user's.
C30_ForgotPasswordIndistinguishable ==
  [][\A email \in EmailInputs \ {NoEmail} :
       ForgotPassword(email) =>
         last' = [op |-> "forgot_password", status |-> 200, body |-> UnknownEmailBody]]_vars
====
